---- MODULE Spec2Model ----
(***************************************************************************)
(* Model of the Maelstrom broadcast node of saurabhkaul/dist-challenge:    *)
(* the node state and message handlers of src/node/src/lib.rs and the      *)
(* dispatcher / writer threads of src/main.rs.                             *)
(*                                                                         *)
(* A node is a record with the fields of struct Node; a handler is an      *)
(* operator from (node, inbound envelope, channel state) to the node after *)
(* the handler, the envelopes it put on the send queue, and whether it     *)
(* returned Ok.  The process specification (Spec) drives one node from     *)
(* standard input as main() does.                                          *)
(***************************************************************************)
EXTENDS Integers, Sequences, FiniteSets, TLC

(***************************************************************************)
(* Bounds of the model.                                                    *)
(***************************************************************************)
MaxLines == 4
MaxMsgId == 3
MaxQueue == 3
MaxValue == 2
MaxInMsgId == 2
CadenceLines == 51
MaxLost == 2
MaxClusterValue == 1
MaxSyncRounds == 1

(***************************************************************************)
(* Program constants.                                                      *)
(***************************************************************************)
Period == 50
SyncFanout == 2

Values == 1..MaxValue
InMsgIds == 1..MaxInMsgId
NodeNames == {"n1", "n2", "n3"}
Clients == {"c1"}

(***************************************************************************)
(* HashMap<String, Vec<_>> as a function whose domain is the key set.      *)
(***************************************************************************)
EmptyMap == [k \in {} |-> <<>>]

MapPut(map, key, val) ==
    [k \in DOMAIN map \cup {key} |-> IF k = key THEN val ELSE map[k]]

(***************************************************************************)
(* Sequence helpers.                                                       *)
(***************************************************************************)
Range(s) == {s[i] : i \in DOMAIN s}

Filter(s, Keep(_)) == SelectSeq(s, Keep)

RECURSIVE Perms(_)
Perms(S) ==
    IF S = {} THEN {<<>>}
    ELSE UNION {{<<x>> \o p : p \in Perms(S \ {x})} : x \in S}

RECURSIVE Concat(_, _)
Concat(f, keys) ==
    IF keys = <<>> THEN <<>> ELSE f[Head(keys)] \o Concat(f, Tail(keys))

(***************************************************************************)
(* Node::new / Node::default                                               *)
(***************************************************************************)
new ==
    [id |-> "", msg_id |-> 0, node_ids |-> <<>>, store |-> {},
     topology |-> EmptyMap, outbox |-> EmptyMap]

Message(src, dest, body) == [src |-> src, dest |-> dest, body |-> body]

\* Message::into_reply
into_reply(msg, payload) == Message(msg.dest, msg.src, payload)

\* MessageBody::msg_id (init_ok carries none: unreachable!() there)
HasMsgId(body) == body.type # "init_ok"

\* The result of a handler: the node afterwards, the envelopes sent on the
\* channel in order, and whether the handler returned Ok(()).
Result(node, out, ok) == [node |-> node, out |-> out, ok |-> ok]

\* Message::send on each envelope of `msgs` in turn: with the receiver gone
\* (up = FALSE) the first send fails and `?` returns the error.
send(node, msgs, up) ==
    IF up \/ msgs = <<>> THEN Result(node, msgs, TRUE)
    ELSE Result(node, <<>>, FALSE)

\* Mutant: the counter is handed out but not advanced.
get_and_increment_msg_id_stuck(n) == n

\* get_and_increment_msg_id: the id handed out is n.msg_id
get_and_increment_msg_id(n) == [n EXCEPT !.msg_id = n.msg_id + 1]

\* Node::check_and_push_to_store
check_and_push_to_store(n, payload) ==
    IF payload \notin n.store
    THEN [n EXCEPT !.store = n.store \cup {payload}]
    ELSE n

\* Node::read: the store as a Vec, in the HashSet's iteration order
read(n) == Perms(n.store)

\* Node::add_to_outbox: the key is the envelope's src
add_to_outbox(n, msg) ==
    LET node_id == msg.src
        old == IF node_id \in DOMAIN n.outbox THEN n.outbox[node_id] ELSE <<>>
    IN  [n EXCEPT !.outbox = MapPut(n.outbox, node_id, Append(old, msg))]

\* Vec::swap_remove(index)
swap_remove(s, index) ==
    LET moved == [s EXCEPT ![index] = s[Len(s)]]
    IN  SubSeq(moved, 1, Len(s) - 1)

\* Iterator::position
position(s, P(_)) ==
    LET hits == {i \in DOMAIN s : P(s[i])}
    IN  IF hits = {} THEN 0 ELSE CHOOSE i \in hits : \A j \in hits : i <= j

\* Node::remove_from_outbox
remove_from_outbox(n, node_id, msg_id) ==
    IF node_id \in DOMAIN n.outbox
    THEN LET node_outbox == n.outbox[node_id]
             Matches(m) == m.body.msg_id = msg_id
             index == position(node_outbox, Matches)
         IN  IF index # 0
             THEN [n EXCEPT !.outbox[node_id] = swap_remove(node_outbox, index)]
             ELSE n
    ELSE n

(***************************************************************************)
(* The handlers of impl NodeTrait for Node<Data>.  Each yields the set of  *)
(* results the handler can produce (one unless a HashSet / HashMap         *)
(* iteration order or the rng decides the output).                         *)
(***************************************************************************)

\* handle_init_message: init_ok is built by hand with src = node_id
handle_init_message(n, msg, up) ==
    LET n1 == [n EXCEPT !.id = msg.body.node_id, !.node_ids = msg.body.node_ids]
        reply == Message(msg.body.node_id, msg.src,
                         [type |-> "init_ok", in_reply_to |-> msg.body.msg_id])
    IN  {send(n1, <<reply>>, up)}

\* Mutant: the reply does not carry the payload back.
handle_echo_message_blank(n, msg, up) ==
    LET payload == [type |-> "echo_ok", msg_id |-> n.msg_id,
                    in_reply_to |-> msg.body.msg_id, echo |-> ""]
    IN  {send(get_and_increment_msg_id(n), <<into_reply(msg, payload)>>, up)}

handle_echo_message(n, msg, up) ==
    LET payload == [type |-> "echo_ok", msg_id |-> n.msg_id,
                    in_reply_to |-> msg.body.msg_id, echo |-> msg.body.echo]
    IN  {send(get_and_increment_msg_id(n), <<into_reply(msg, payload)>>, up)}

\* handle_generate_message: Ulid::new() is abstracted to the token "ulid"
handle_generate_message(n, msg, up) ==
    LET payload == [type |-> "generate_ok", msg_id |-> n.msg_id,
                    in_reply_to |-> msg.body.msg_id, id |-> "ulid"]
    IN  {send(get_and_increment_msg_id(n), <<into_reply(msg, payload)>>, up)}

\* Mutant: the sender of the broadcast is not left out.
fanout_messages_all(n, msg) ==
    LET targets == IF n.id \in DOMAIN n.topology THEN n.topology[n.id] ELSE <<>>
    IN  [i \in DOMAIN targets |->
            Message(n.id, targets[i],
                    [type |-> "broadcast", message |-> msg.body.message,
                     msg_id |-> msg.body.msg_id])]

\* The fan-out envelopes of handle_broadcast_message, in neighbour order
fanout_messages(n, msg) ==
    LET NotSender(x) == x # msg.src
        targets == IF n.id \in DOMAIN n.topology
                   THEN Filter(n.topology[n.id], NotSender)
                   ELSE <<>>
    IN  [i \in DOMAIN targets |->
            Message(n.id, targets[i],
                    [type |-> "broadcast", message |-> msg.body.message,
                     msg_id |-> msg.body.msg_id])]

RECURSIVE add_all_to_outbox(_, _)
add_all_to_outbox(n, msgs) ==
    IF msgs = <<>> THEN n
    ELSE add_all_to_outbox(add_to_outbox(n, Head(msgs)), Tail(msgs))

\* Mutant: the fan-out envelopes are sent before the reply.
handle_broadcast_message_fanout_first(n, msg, up) ==
    IF msg.body.message \notin n.store
    THEN LET n1 == check_and_push_to_store(n, msg.body.message)
             reply_payload == [type |-> "broadcast_ok",
                               in_reply_to |-> msg.body.msg_id,
                               msg_id |-> n1.msg_id]
             n2 == get_and_increment_msg_id(n1)
             reply == into_reply(msg, reply_payload)
             fanout == fanout_messages(n2, msg)
         IN  IF ~up THEN {Result(n2, <<>>, FALSE)}
             ELSE {Result(add_all_to_outbox(n2, fanout), fanout \o <<reply>>, TRUE)}
    ELSE {Result(n, <<>>, TRUE)}

handle_broadcast_message(n, msg, up) ==
    IF msg.body.message \notin n.store
    THEN LET n1 == check_and_push_to_store(n, msg.body.message)
             reply_payload == [type |-> "broadcast_ok",
                               in_reply_to |-> msg.body.msg_id,
                               msg_id |-> n1.msg_id]
             n2 == get_and_increment_msg_id(n1)
             reply == into_reply(msg, reply_payload)
             fanout == fanout_messages(n2, msg)
         IN  IF ~up THEN {Result(n2, <<>>, FALSE)}
             ELSE {Result(add_all_to_outbox(n2, fanout), <<reply>> \o fanout, TRUE)}
    ELSE {Result(n, <<>>, TRUE)}

\* Mutant: the read_ok lists the store without its smallest value.
handle_read_message_short(n, msg, up) ==
    LET kept == n.store \ {v \in n.store : \A w \in n.store : v <= w}
    IN  {send(get_and_increment_msg_id(n),
              <<into_reply(msg, [type |-> "read_ok", messages |-> messages,
                                 in_reply_to |-> msg.body.msg_id,
                                 msg_id |-> n.msg_id])>>, up)
           : messages \in Perms(kept)}

handle_read_message(n, msg, up) ==
    {send(get_and_increment_msg_id(n),
          <<into_reply(msg, [type |-> "read_ok", messages |-> messages,
                             in_reply_to |-> msg.body.msg_id,
                             msg_id |-> n.msg_id])>>, up)
       : messages \in read(n)}

\* Mutant: the received map is merged into the old one.
handle_topology_message_merge(n, msg, up) ==
    LET t == msg.body.topology
        n1 == [n EXCEPT !.topology =
                 [k \in DOMAIN n.topology \cup DOMAIN t |->
                    IF k \in DOMAIN t THEN t[k] ELSE n.topology[k]]]
        payload == [type |-> "topology_ok", msg_id |-> n1.msg_id,
                    in_reply_to |-> msg.body.msg_id]
    IN  {send(get_and_increment_msg_id(n1), <<into_reply(msg, payload)>>, up)}

handle_topology_message(n, msg, up) ==
    LET n1 == [n EXCEPT !.topology = msg.body.topology]
        payload == [type |-> "topology_ok", msg_id |-> n1.msg_id,
                    in_reply_to |-> msg.body.msg_id]
    IN  {send(get_and_increment_msg_id(n1), <<into_reply(msg, payload)>>, up)}

\* Mutant: the store is overwritten with the sender's values instead of
\* absorbing them.
handle_sync_message_overwrite(n, msg, up) ==
    LET messages == Range(msg.body.messages)
        n1 == [n EXCEPT !.store = messages]
    IN  {send(get_and_increment_msg_id(n1),
              <<into_reply(msg, [type |-> "sync_ok", msg_id |-> n1.msg_id,
                                 in_reply_to |-> msg.body.msg_id,
                                 messages |-> list])>>, up)
           : list \in Perms(n.store \ messages)}

\* Mutant: the reply lists the whole store, not only what the sender lacks.
handle_sync_message_all(n, msg, up) ==
    LET n1 == [n EXCEPT !.store = n.store \cup Range(msg.body.messages)]
    IN  {send(get_and_increment_msg_id(n1),
              <<into_reply(msg, [type |-> "sync_ok", msg_id |-> n1.msg_id,
                                 in_reply_to |-> msg.body.msg_id,
                                 messages |-> list])>>, up)
           : list \in Perms(n1.store)}

\* Mutant: the msg_id of the sync is absorbed as if it were a value.
handle_sync_message_ids(n, msg, up) ==
    LET messages == Range(msg.body.messages)
        n1 == [n EXCEPT !.store = n.store \cup messages \cup {msg.body.msg_id}]
    IN  {send(get_and_increment_msg_id(n1),
              <<into_reply(msg, [type |-> "sync_ok", msg_id |-> n1.msg_id,
                                 in_reply_to |-> msg.body.msg_id,
                                 messages |-> list])>>, up)
           : list \in Perms(n.store \ messages)}

handle_sync_message(n, msg, up) ==
    LET messages == Range(msg.body.messages)
        i_have == n.store \ messages
        they_have == messages \ n.store
        n1 == [n EXCEPT !.store = n.store \cup they_have]
    IN  {send(get_and_increment_msg_id(n1),
              <<into_reply(msg, [type |-> "sync_ok", msg_id |-> n1.msg_id,
                                 in_reply_to |-> msg.body.msg_id,
                                 messages |-> list])>>, up)
           : list \in Perms(i_have)}

\* Mutant: the values of a sync_ok are not absorbed.
handle_sync_ok_message_drop(n, msg, up) == {Result(n, <<>>, TRUE)}

handle_sync_ok_message(n, msg, up) ==
    {Result([n EXCEPT !.store = n.store \cup Range(msg.body.messages)], <<>>, TRUE)}

handle_broadcast_ok_message(n, msg, up) ==
    {Result(remove_from_outbox(n, msg.src, msg.body.in_reply_to), <<>>, TRUE)}

\* Mutant: the replay sends nothing.
retry_messages_none(n, up) == {Result(n, <<>>, TRUE)}

\* Mutant: the replay empties the outbox lists it has sent.
retry_messages_drain(n, up) ==
    {LET r == send(n, Concat(n.outbox, keys), up)
     IN  Result([n EXCEPT !.outbox = [k \in DOMAIN n.outbox |-> <<>>]], r.out, r.ok)
       : keys \in Perms(DOMAIN n.outbox)}

\* retry_messages: every envelope of every outbox list, the lists taken in
\* the HashMap's key order
retry_messages(n, up) ==
    {send(n, Concat(n.outbox, keys), up) : keys \in Perms(DOMAIN n.outbox)}

\* The ordered choices of `amount` distinct positions of a Vec of length len
\* (slice::choose_multiple)
choose_multiple(len, amount) ==
    LET k == IF amount < len THEN amount ELSE len
    IN  {s \in [1..k -> 1..len] : \A i, j \in 1..k : i # j => s[i] # s[j]}

\* request_sync_with_random_peers: one sync per chosen peer, each with a
\* fresh msg_id and the store of that moment
request_sync_with_random_peers(n) ==
    UNION {
      {Result([n EXCEPT !.msg_id = n.msg_id + Len(picks)],
              [i \in DOMAIN picks |->
                 Message(n.id, n.node_ids[picks[i]],
                         [type |-> "sync", msg_id |-> n.msg_id + i - 1,
                          messages |-> lists[i]])],
              TRUE)
         : lists \in [DOMAIN picks -> read(n)]}
      : picks \in choose_multiple(Len(n.node_ids), SyncFanout)}

\* The body variants NodeTrait::next routes to a handler; any other variant
\* reaches unreachable!()
RequestTypes ==
    {"echo", "init", "generate", "broadcast", "topology", "read",
     "broadcast_ok", "sync", "sync_ok"}

\* NodeTrait::next
next(n, msg, up) ==
    CASE msg.body.type = "echo" -> handle_echo_message(n, msg, up)
      [] msg.body.type = "init" -> handle_init_message(n, msg, up)
      [] msg.body.type = "generate" -> handle_generate_message(n, msg, up)
      [] msg.body.type = "broadcast" -> handle_broadcast_message(n, msg, up)
      [] msg.body.type = "topology" -> handle_topology_message(n, msg, up)
      [] msg.body.type = "read" -> handle_read_message(n, msg, up)
      [] msg.body.type = "broadcast_ok" -> handle_broadcast_ok_message(n, msg, up)
      [] msg.body.type = "sync" -> handle_sync_message(n, msg, up)
      [] msg.body.type = "sync_ok" -> handle_sync_ok_message(n, msg, up)

(***************************************************************************)
(* The process of src/main.rs: the dispatcher (main thread) reading        *)
(* standard input line by line, the mpsc channel, and the writer thread.   *)
(***************************************************************************)
VARIABLES
    node,       \* the Node<u32> owned by main
    queue,      \* envelopes in the mpsc channel, oldest first
    pc,         \* where main is: "loop1", "final_retry", "loop2", "join",
                \* "done" (returned Ok), "exit_err" (returned Err), "panicked"
    msg_num,    \* enumerate() index of the next line of the running main_loop
    lines,      \* history: lines read from standard input so far
    writer,     \* the writer thread: "running", "exited", "panicked"
    last,       \* history: the last step of main (the line handled, the
                \* envelopes the periodic closure and the handler sent)
    hi,         \* history: body msg_id of the envelope sent most recently
                \* among those that carry one (-1: none yet)
    hf,         \* history: the same among the envelopes whose msg_id came
                \* from get_and_increment_msg_id
    acked,      \* history: the values whose broadcast the node has answered
                \* with a broadcast_ok put on the send queue
    nodes,      \* cluster: the Node of every process
    net,        \* cluster: envelopes written by a process and not yet read
                \* by the process they are addressed to
    lost,       \* cluster: envelopes the network has dropped so far
    exch,       \* cluster history: the sync exchanges started so far, each
                \* with the initiator's store when the sync was built and
                \* the responder's store when it handled the sync
    asked       \* cluster history: the values clients have broadcast

procVars == <<node, queue, pc, msg_num, lines, writer, last, hi, hf, acked>>

clusterVars == <<nodes, net, lost, exch, asked>>

vars == <<procVars, clusterVars>>

\* The inbound envelopes the model feeds on standard input.
Topologies ==
    {[k \in {"n1", "n2", "n3"} |->
         IF k = "n1" THEN <<"n2", "n3">> ELSE <<"n1">>],
     [k \in {"n2", "n3"} |-> IF k = "n2" THEN <<"n3">> ELSE <<"n2">>],
     [k \in {"n1"} |-> <<>>]}

ValueLists == {<<1, 2>>, <<2, 2>>}

InitBodies ==
    {[type |-> "init", msg_id |-> 1, node_id |-> "n1",
      node_ids |-> <<"n1", "n2", "n3">>],
     [type |-> "init", msg_id |-> 2, node_id |-> "n2",
      node_ids |-> <<"n1", "n2">>]}

ClientBodies ==
    {[type |-> "echo", msg_id |-> 1, echo |-> "hi"],
     [type |-> "generate", msg_id |-> 1],
     [type |-> "read", msg_id |-> 1]}
    \cup {[type |-> "topology", msg_id |-> 1, topology |-> t] : t \in Topologies}
    \cup InitBodies

BroadcastBodies ==
    {[type |-> "broadcast", message |-> v, msg_id |-> k]
       : v \in Values, k \in InMsgIds}

PeerBodies ==
    {[type |-> "sync", msg_id |-> 1, messages |-> l] : l \in ValueLists}
    \cup {[type |-> "sync_ok", msg_id |-> 1, in_reply_to |-> 1, messages |-> l]
            : l \in ValueLists}

AckBodies ==
    {[type |-> "broadcast_ok", msg_id |-> 1, in_reply_to |-> k] : k \in InMsgIds}

ReplyOnlyBodies ==
    {[type |-> "init_ok", in_reply_to |-> 1],
     [type |-> "echo_ok", msg_id |-> 1, in_reply_to |-> 1, echo |-> "hi"],
     [type |-> "generate_ok", msg_id |-> 1, in_reply_to |-> 1, id |-> "ulid"],
     [type |-> "topology_ok", msg_id |-> 1, in_reply_to |-> 1],
     [type |-> "read_ok", msg_id |-> 1, in_reply_to |-> 1, messages |-> <<>>]}

Inputs ==
    {Message("c1", "n1", b) : b \in ClientBodies \cup ReplyOnlyBodies}
    \cup {Message("c1", "n1", b) : b \in BroadcastBodies}
    \cup {Message("n2", "n1", b) : b \in {x \in BroadcastBodies : x.msg_id = 1}}
    \cup {Message("n2", "n1", b) : b \in PeerBodies}
    \cup {Message(s, "n1", b) : s \in {"n1", "n2"}, b \in AckBodies}

NoMsg == Message("", "", [type |-> "none"])

Step(kind, msg, replay, out, tick, ok) ==
    [kind |-> kind, msg |-> msg, replay |-> replay, out |-> out,
     tick |-> tick, ok |-> ok]

\* The receiver of the channel exists as long as the writer thread runs.
Up == writer = "running"

\* The envelopes of `out` that carry a body msg_id, and those among them
\* whose msg_id was drawn from the node's counter (every variant the node
\* builds except the broadcast it forwards).
WithMsgId(out) ==
    LET Carries(m) == HasMsgId(m.body) IN SelectSeq(out, Carries)

Fresh(out) ==
    LET Drawn(m) == HasMsgId(m.body) /\ m.body.type # "broadcast"
    IN  SelectSeq(out, Drawn)

LastMsgId(out, old) ==
    IF out = <<>> THEN old ELSE out[Len(out)].body.msg_id

Enqueue(out) ==
    /\ Len(queue) + Len(out) <= MaxQueue
    /\ queue' = queue \o out
    /\ hi' = LastMsgId(WithMsgId(out), hi)
    /\ hf' = LastMsgId(Fresh(out), hf)

Init ==
    /\ node = new
    /\ queue = <<>>
    /\ pc = "loop1"
    /\ msg_num = 0
    /\ lines = 0
    /\ writer = "running"
    /\ last = Step("start", NoMsg, <<>>, <<>>, FALSE, TRUE)
    /\ hi = -1
    /\ hf = -1
    /\ acked = {}
    /\ nodes = EmptyMap
    /\ net = {}
    /\ lost = 0
    /\ exch = {}
    /\ asked = {}

\* The periodic closure of a main_loop iteration: retry_messages in the first
\* loop on every Period-th line, nothing in the second loop.
Tick == pc = "loop1" /\ (msg_num + 1) % Period = 0

periodic(n, tick, up) ==
    IF tick THEN retry_messages(n, up) ELSE {Result(n, <<>>, TRUE)}

\* The value a handler has acknowledged: the message of the broadcast `msg`
\* when `out` holds a broadcast_ok in reply to it.
AckedBy(msg, out) ==
    IF /\ msg.body.type = "broadcast"
       /\ \E i \in DOMAIN out :
            /\ out[i].body.type = "broadcast_ok"
            /\ out[i].dest = msg.src
            /\ out[i].body.in_reply_to = msg.body.msg_id
    THEN {msg.body.message}
    ELSE {}

\* One iteration of main_loop on a line that deserializes to `msg`.
Line(msg, limit) ==
    /\ pc \in {"loop1", "loop2"}
    /\ lines < limit
    /\ lines' = lines + 1
    /\ UNCHANGED <<writer, clusterVars>>
    /\ \E p \in periodic(node, Tick, Up) :
         IF ~p.ok
         THEN /\ pc' = "exit_err"
              /\ node' = p.node
              /\ Enqueue(p.out)
              /\ UNCHANGED acked
              /\ last' = Step("periodic", NoMsg, p.out, <<>>, Tick, FALSE)
              /\ UNCHANGED msg_num
         ELSE IF msg.body.type \notin RequestTypes
         THEN /\ pc' = "panicked"
              /\ node' = p.node
              /\ Enqueue(p.out)
              /\ UNCHANGED acked
              /\ last' = Step("unreachable", msg, p.out, <<>>, Tick, FALSE)
              /\ UNCHANGED msg_num
         ELSE \E r \in next(p.node, msg, Up) :
              /\ r.node.msg_id <= MaxMsgId
              /\ node' = r.node
              /\ Enqueue(p.out \o r.out)
              /\ acked' = acked \cup AckedBy(msg, r.out)
              /\ last' = Step("line", msg, p.out, r.out, Tick, r.ok)
              /\ msg_num' = msg_num + 1
              /\ UNCHANGED pc

OnEcho(msg) == msg.body.type = "echo" /\ Line(msg, MaxLines)
OnInit(msg) == msg.body.type = "init" /\ Line(msg, MaxLines)
OnGenerate(msg) == msg.body.type = "generate" /\ Line(msg, MaxLines)
OnBroadcast(msg) == msg.body.type = "broadcast" /\ Line(msg, MaxLines)
OnTopology(msg) == msg.body.type = "topology" /\ Line(msg, MaxLines)
OnRead(msg) == msg.body.type = "read" /\ Line(msg, MaxLines)
OnBroadcastOk(msg) == msg.body.type = "broadcast_ok" /\ Line(msg, MaxLines)
OnSync(msg) == msg.body.type = "sync" /\ Line(msg, MaxLines)
OnSyncOk(msg) == msg.body.type = "sync_ok" /\ Line(msg, MaxLines)
\* Mutant: a line with a reply-only body is skipped and the loop goes on.
OnUnexpected_skipped(msg) ==
    /\ msg.body.type \notin RequestTypes
    /\ pc \in {"loop1", "loop2"}
    /\ lines < MaxLines
    /\ lines' = lines + 1
    /\ msg_num' = msg_num + 1
    /\ last' = Step("line", msg, <<>>, <<>>, FALSE, TRUE)
    /\ UNCHANGED <<node, queue, pc, writer, hi, hf, acked, clusterVars>>

OnUnexpected(msg) == msg.body.type \notin RequestTypes /\ Line(msg, MaxLines)

\* A line that fails to deserialize: main_loop returns Err after the periodic
\* closure ran.
BadLineAt(limit) ==
    /\ pc \in {"loop1", "loop2"}
    /\ lines < limit
    /\ lines' = lines + 1
    /\ UNCHANGED <<writer, msg_num, clusterVars>>
    /\ \E p \in periodic(node, Tick, Up) :
         /\ pc' = "exit_err"
         /\ node' = p.node
         /\ Enqueue(p.out)
         /\ UNCHANGED acked
         /\ last' = Step("bad_line", NoMsg, p.out, <<>>, Tick, FALSE)

BadLine == BadLineAt(MaxLines)

\* Standard input is at end-of-file: the running main_loop returns Ok.
Eof ==
    /\ pc \in {"loop1", "loop2"}
    /\ pc' = IF pc = "loop1" THEN "final_retry" ELSE "join"
    /\ last' = Step("eof", NoMsg, <<>>, <<>>, FALSE, TRUE)
    /\ UNCHANGED <<node, queue, msg_num, lines, writer, hi, hf, acked, clusterVars>>

\* "trigger one final resend", then the second main_loop starts at index 0.
FinalRetry ==
    /\ pc = "final_retry"
    /\ \E r \in retry_messages(node, Up) :
         /\ pc' = IF r.ok THEN "loop2" ELSE "exit_err"
         /\ node' = r.node
         /\ Enqueue(r.out)
         /\ UNCHANGED acked
         /\ last' = Step("final_retry", NoMsg, r.out, <<>>, FALSE, r.ok)
    /\ msg_num' = 0
    /\ UNCHANGED <<lines, writer, clusterVars>>

\* print_thread_handle.join() returns once the writer thread has ended.
Join ==
    /\ pc = "join"
    /\ writer # "running"
    /\ pc' = "done"
    /\ last' = Step("join", NoMsg, <<>>, <<>>, FALSE, TRUE)
    /\ UNCHANGED <<node, queue, msg_num, lines, writer, hi, hf, acked, clusterVars>>

\* main still holds its Sender until it returns or unwinds.
SenderAlive == pc \notin {"done", "exit_err", "panicked"}

\* The writer: rx.recv() yields the oldest envelope, which is written out.
WriterWrite ==
    /\ writer = "running"
    /\ queue # <<>>
    /\ queue' = Tail(queue)
    /\ UNCHANGED <<node, pc, msg_num, lines, writer, last, hi, hf, acked, clusterVars>>

\* rx.recv() fails only when the channel is empty and every Sender is gone.
WriterExit ==
    /\ writer = "running"
    /\ queue = <<>>
    /\ ~SenderAlive
    /\ writer' = "exited"
    /\ UNCHANGED <<node, queue, pc, msg_num, lines, last, hi, hf, acked, clusterVars>>

\* eprintln! in the writer panics when the diagnostic stream is gone: the
\* thread unwinds and drops the Receiver with whatever the channel holds.
WriterPanic ==
    /\ writer = "running"
    /\ SenderAlive
    /\ writer' = "panicked"
    /\ queue' = <<>>
    /\ UNCHANGED <<node, pc, msg_num, lines, last, hi, hf, acked, clusterVars>>

Next ==
    \/ \E msg \in Inputs :
         \/ OnEcho(msg)
         \/ OnInit(msg)
         \/ OnGenerate(msg)
         \/ OnBroadcast(msg)
         \/ OnTopology(msg)
         \/ OnRead(msg)
         \/ OnBroadcastOk(msg)
         \/ OnSync(msg)
         \/ OnSyncOk(msg)
         \/ OnUnexpected(msg)
    \/ BadLine
    \/ Eof
    \/ FinalRetry
    \/ Join
    \/ WriterWrite
    \/ WriterExit
    \/ WriterPanic

Spec == Init /\ [][Next]_vars

TypeOK ==
    /\ pc \in {"loop1", "final_retry", "loop2", "join", "done", "exit_err", "panicked"}
    /\ writer \in {"running", "exited", "panicked"}
    /\ node.store \subseteq Values
    /\ Len(queue) <= MaxQueue

(***************************************************************************)
(* Properties of the process.                                              *)
(***************************************************************************)

\* A step of the main thread (the writer's steps change neither).
MainStepped == lines' # lines \/ pc' # pc

\* Everything main put on the channel in its last step, in order.
Sent(step) == step.replay \o step.out

Handled(type) == last.kind = "line" /\ last.msg.body.type = type

OutboxEntries(n) == UNION {Range(n.outbox[k]) : k \in DOMAIN n.outbox}

StrictlyIncreasing(ids) == \A i, j \in DOMAIN ids : i < j => ids[i] < ids[j]

MsgIds(out) == [i \in DOMAIN out |-> out[i].body.msg_id]

\* C2 (Dedup): handling a broadcast of a value the store already holds, with
\* the writer running, sends exactly one broadcast_ok to the sender, with
\* in_reply_to = the request's msg_id, and no fan-out broadcast.
C2_DedupRepliesOnce ==
    [][(/\ MainStepped
        /\ last'.kind = "line"
        /\ last'.msg.body.type = "broadcast"
        /\ last'.msg.body.message \in node.store
        /\ writer = "running")
       => /\ Len(last'.out) = 1
          /\ last'.out[1].body.type = "broadcast_ok"
          /\ last'.out[1].dest = last'.msg.src
          /\ last'.out[1].body.in_reply_to = last'.msg.body.msg_id]_vars

\* C3 (Ack stops retry): once a broadcast_ok from p with in_reply_to = r has
\* been handled, the fan-out envelope recorded for p with body msg_id r is in
\* no outbox list, so no later replay sends it again.
C3_AckedEnvelopeGone ==
    Handled("broadcast_ok") =>
        \A e \in OutboxEntries(node) :
            ~(e.dest = last.msg.src /\ e.body.msg_id = last.msg.body.in_reply_to)

\* C4 (P2): every envelope stored under key p of the outbox has dest = p.
C4_OutboxKeyIsDest ==
    \A p \in DOMAIN node.outbox :
        \A e \in Range(node.outbox[p]) : e.dest = p

\* C5 (P3): right after a broadcast_ok from p with in_reply_to = r has been
\* handled, outbox[p] holds no envelope whose body msg_id is r.
C5_NoMatchLeftUnderKey ==
    (Handled("broadcast_ok") /\ last.msg.src \in DOMAIN node.outbox) =>
        \A e \in Range(node.outbox[last.msg.src]) :
            e.body.msg_id # last.msg.body.in_reply_to

\* C6 (P4) as claimed: the body msg_id of every envelope the node sends that
\* carries one (replies, fan-out broadcasts, replayed envelopes) is greater
\* than that of the envelope sent before it.
C6_AllMsgIdsIncrease ==
    [][MainStepped =>
         StrictlyIncreasing((IF hi < 0 THEN <<>> ELSE <<hi>>)
                            \o MsgIds(WithMsgId(Sent(last'))))]_vars

\* C6 (P4) amended: the body msg_id strictly increases in emission order over
\* the envelopes whose msg_id the node drew from its counter (every reply that
\* carries one); fan-out and replayed broadcasts carry the msg_id of the
\* inbound broadcast and are outside the order.
C6_FreshMsgIdsIncrease ==
    [][MainStepped =>
         StrictlyIncreasing((IF hf < 0 THEN <<>> ELSE <<hf>>)
                            \o MsgIds(Fresh(Sent(last'))))]_vars

\* A reply with a drawn msg_id follows earlier ones and a fan-out was sent.
C6_Witness ==
    /\ Handled("broadcast")
    /\ hf >= 2
    /\ \E i \in DOMAIN last.out : last.out[i].body.type = "broadcast"

\* C8: once an init has been handled (id is set), a later init leaves id and
\* the peer list as they are.
C8_IdSetOnce ==
    [][(MainStepped /\ node.id # "" /\ last'.kind = "line"
        /\ last'.msg.body.type = "init")
       => (node'.id = node.id /\ node'.node_ids = node.node_ids)]_vars

\* C10 (P1): no step removes a value from the store.
C10_StoreOnlyGrows == [][node.store \subseteq node'.store]_vars

\* A sync whose list lacks a stored value has been handled, and the value is
\* still there.
C10_Witness ==
    /\ Handled("sync")
    /\ node.store = {1, 2}
    /\ Range(last.msg.body.messages) = {2}

\* C12 (Sync handler result): handling a sync with list `theirs` at a node
\* whose store is `ours`, with the writer running, leaves the store equal to
\* ours \cup set(theirs) and sends exactly one envelope, a sync_ok to the
\* sender with in_reply_to = the sync's msg_id whose messages list has no
\* duplicates and, as a set, equals ours \ set(theirs).
C12_SyncHandlerResult ==
    [][(/\ MainStepped
        /\ last'.kind = "line"
        /\ last'.msg.body.type = "sync"
        /\ writer = "running")
       => LET ours == node.store
              theirs == Range(last'.msg.body.messages)
              out == last'.out
          IN  /\ node'.store = ours \cup theirs
              /\ Len(out) = 1
              /\ out[1].body.type = "sync_ok"
              /\ out[1].dest = last'.msg.src
              /\ out[1].body.in_reply_to = last'.msg.body.msg_id
              /\ Range(out[1].body.messages) = ours \ theirs
              /\ Len(out[1].body.messages) = Cardinality(ours \ theirs)]_vars

\* A sync has been answered with a sync_ok that lists a value the sender
\* lacked.
C12_Witness ==
    /\ Handled("sync")
    /\ Len(last.out) = 1
    /\ last.out[1].body.type = "sync_ok"
    /\ last.out[1].body.messages = <<1>>

\* What L1 says of the one envelope an echo from c with msg_id m and payload s
\* produces, apart from its src, and of the node state.
EchoReplied ==
    /\ Len(last'.out) = 1
    /\ last'.out[1].body.type = "echo_ok"
    /\ last'.out[1].body.in_reply_to = last'.msg.body.msg_id
    /\ last'.out[1].body.echo = last'.msg.body.echo
    /\ last'.out[1].dest = last'.msg.src
    /\ queue' = queue \o last'.out
    /\ node' = [node EXCEPT !.msg_id = node.msg_id + 1]

EchoHandled ==
    /\ MainStepped
    /\ last'.kind = "line"
    /\ last'.msg.body.type = "echo"
    /\ writer = "running"

\* C13 (L1 echo) as claimed: handling an echo produces exactly one envelope,
\* an echo_ok with in_reply_to = m, echo = s, dest = c and src = the node's
\* own id, and changes nothing of the node but the msg_id counter.
C13_EchoReplyFromOwnId ==
    [][EchoHandled => (EchoReplied /\ last'.out[1].src = node.id)]_vars

\* C13 (L1 echo) amended: the same, with src = the dest of the echo envelope
\* (the node's own id when the envelope was addressed to the node by its id).
C13_EchoReplyFromDest ==
    [][EchoHandled => (EchoReplied /\ last'.out[1].src = last'.msg.dest)]_vars

\* An echo addressed to n1 has been answered by a node whose id is not n1.
C13_Witness ==
    /\ Handled("echo")
    /\ Len(last.out) = 1
    /\ last.out[1].src = "n1"
    /\ node.id # "n1"

\* C14 (P5): after a topology message has been handled the topology map is
\* exactly the received map (no key of the old map survives unless the new
\* map has it), and with the writer running the node sends one topology_ok
\* whose in_reply_to is the request's msg_id.
C14_TopologyReplaced ==
    [][(/\ MainStepped
        /\ last'.kind = "line"
        /\ last'.msg.body.type = "topology")
       => /\ node'.topology = last'.msg.body.topology
          /\ DOMAIN node'.topology = DOMAIN last'.msg.body.topology
          /\ writer = "running" =>
                /\ Len(last'.out) = 1
                /\ last'.out[1].body.type = "topology_ok"
                /\ last'.out[1].dest = last'.msg.src
                /\ last'.out[1].body.in_reply_to = last'.msg.body.msg_id]_vars

\* A topology with the single key n1 and no neighbours has replaced one under
\* which the node had neighbours to fan out to.
C14_Witness ==
    /\ Handled("topology")
    /\ DOMAIN node.topology = {"n1"}
    /\ OutboxEntries(node) # {}
    /\ Len(last.out) = 1

\* C15 (Send-channel failure is fatal): when a handler's send fails because
\* the writer has died, main_loop returns the error (main stops reading
\* input and exits with an error) instead of going on to the next line.
C15_SendFailureFatal ==
    [][(/\ MainStepped
        /\ last'.kind = "line"
        /\ ~last'.ok)
       => pc' = "exit_err"]_vars

\* The neighbours of a node that a broadcast from `sender` fans out to.
FanoutTargets(n, sender) ==
    LET listed == IF n.id \in DOMAIN n.topology THEN n.topology[n.id] ELSE <<>>
    IN  {listed[i] : i \in DOMAIN listed} \ {sender}

\* The broadcast envelopes among those a step sent.
Forwarded(out) ==
    LET IsBroadcast(m) == m.body.type = "broadcast" IN SelectSeq(out, IsBroadcast)

\* C16 (Fan-out target set): a broadcast of a value the store lacks, handled
\* with the writer running, sends one broadcast envelope with that value and
\* src = the node's id to each neighbour of topology[id] other than the
\* sender and to nobody else; with no entry for id, or no neighbour left,
\* no broadcast envelope is sent and the outbox stays as it was.
C16_FanoutTargets ==
    [][(/\ MainStepped
        /\ last'.kind = "line"
        /\ last'.msg.body.type = "broadcast"
        /\ last'.msg.body.message \notin node.store
        /\ writer = "running")
       => LET fan == Forwarded(last'.out)
              targets == FanoutTargets(node, last'.msg.src)
          IN  /\ {fan[i].dest : i \in DOMAIN fan} = targets
              /\ Len(fan) = Cardinality(targets)
              /\ \A i \in DOMAIN fan :
                    /\ fan[i].src = node.id
                    /\ fan[i].body.message = last'.msg.body.message
              /\ targets = {} => node'.outbox = node.outbox]_vars

\* A broadcast from the neighbour n2 has been forwarded to n3 only.
C16_Witness ==
    /\ Handled("broadcast")
    /\ last.msg.src = "n2"
    /\ node.id = "n1"
    /\ Len(last.out) = 2
    /\ last.out[2].body.type = "broadcast"
    /\ last.out[2].dest = "n3"

\* The neighbours a broadcast from `sender` is forwarded to, in the order in
\* which topology[id] lists them.
NeighbourOrder(n, sender) ==
    LET listed == IF n.id \in DOMAIN n.topology THEN n.topology[n.id] ELSE <<>>
        Other(x) == x # sender
    IN  SelectSeq(listed, Other)

\* C17 (Output ordering): whatever one main_loop iteration produces is at the
\* tail of the send queue, in the order produced, when the iteration ends
\* (before the next line is read); a broadcast handler's output is the reply
\* first and then the fan-out envelopes in the order of the neighbour list;
\* and the writer takes envelopes off the queue oldest first, one whole
\* envelope per write.
C17_OutputOrdering ==
    [][/\ MainStepped => queue' = queue \o Sent(last')
       /\ (/\ MainStepped
           /\ last'.kind = "line"
           /\ last'.msg.body.type = "broadcast"
           /\ last'.out # <<>>)
          => /\ last'.out[1].body.type = "broadcast_ok"
             /\ [i \in DOMAIN Tail(last'.out) |-> Tail(last'.out)[i].dest]
                  = NeighbourOrder(node, last'.msg.src)
             /\ \A i \in DOMAIN Tail(last'.out) :
                   Tail(last'.out)[i].body.type = "broadcast"
       /\ (~MainStepped /\ queue' # queue)
          => \/ queue # <<>> /\ queue' = Tail(queue)
             \/ writer' = "panicked"]_vars

\* A reply and two fan-out envelopes were enqueued by one handler; the writer
\* has written the reply and the fan-out envelopes wait in their order.
C17_Witness ==
    /\ Handled("broadcast")
    /\ Len(last.out) = 3
    /\ writer = "running"
    /\ queue = Tail(last.out)

\* C19 (Outbox msg_id uniqueness): no two envelopes of one outbox list carry
\* the same body msg_id.
C19_OutboxMsgIdUnique ==
    \A p \in DOMAIN node.outbox :
        \A i, j \in DOMAIN node.outbox[p] :
            i # j => node.outbox[p][i].body.msg_id # node.outbox[p][j].body.msg_id

\* The body variants a node only ever sends.
ReplyOnlyTypes == {"init_ok", "echo_ok", "generate_ok", "topology_ok", "read_ok"}

\* C20 (Unexpected variant is fatal): a line whose body is a reply-only
\* variant makes the main thread panic: the handler sends nothing, the node
\* is left as it was, and main takes no further step (no later line is
\* read, nothing more is enqueued).
C20_UnexpectedIsFatal ==
    [][/\ (MainStepped /\ last'.msg.body.type \in ReplyOnlyTypes)
          => /\ pc' = "panicked"
             /\ last'.out = <<>>
             /\ node' = node
             /\ queue' = queue \o last'.replay
       /\ pc = "panicked"
          => /\ pc' = pc
             /\ lines' = lines
             /\ node' = node
             /\ last' = last
             /\ Len(queue') <= Len(queue)]_vars

\* After other lines were handled, a read_ok line has stopped the process.
C20_Witness ==
    /\ pc = "panicked"
    /\ last.kind = "unreachable"
    /\ last.msg.body.type = "read_ok"
    /\ lines > 1
    /\ node.store # {}

\* C21 (Read-after-ack): a read_ok the node enqueues lists every value whose
\* broadcast the node has answered with a broadcast_ok before, and its
\* messages list is the store of that moment, each value once.
C21_ReadAfterAck ==
    [][(/\ MainStepped
        /\ last'.kind = "line"
        /\ \E i \in DOMAIN last'.out : last'.out[i].body.type = "read_ok")
       => \A i \in DOMAIN last'.out :
            last'.out[i].body.type = "read_ok" =>
                LET messages == last'.out[i].body.messages
                IN  /\ acked \subseteq Range(messages)
                    /\ Range(messages) = node.store
                    /\ node'.store = node.store
                    /\ Len(messages) = Cardinality(node.store)]_vars

\* A read has been answered after two broadcasts were acknowledged.
C21_Witness ==
    /\ Handled("read")
    /\ Len(last.out) = 1
    /\ acked = {1, 2}
    /\ Len(last.out[1].body.messages) = 2

(***************************************************************************)
(* The process under fair scheduling: both threads keep running while they *)
(* have a step to take, and a read of standard input at end-of-file        *)
(* returns.  Nothing obliges the writer to fail or more lines to arrive.   *)
(***************************************************************************)
FairSpec ==
    /\ Spec
    /\ WF_vars(Eof)
    /\ WF_vars(FinalRetry)
    /\ WF_vars(Join)
    /\ WF_vars(WriterWrite)
    /\ WF_vars(WriterExit)

FatalError == pc \in {"exit_err", "panicked"} \/ writer = "panicked"

\* C7 (Termination on EOF): once standard input has reached end-of-file and
\* no fatal error occurs, main eventually returns Ok with the writer thread
\* exited and every queued envelope written.
C7_TerminatesOnEof ==
    (pc = "final_retry") ~>
        ((pc = "done" /\ writer = "exited" /\ queue = <<>>) \/ FatalError)

(***************************************************************************)
(* The same process on a long input: enough lines for the periodic closure *)
(* of main_loop to run, drawn from a few envelopes so that the run stays   *)
(* small.                                                                  *)
(***************************************************************************)
CadenceInputs ==
    {Message("c1", "n1", [type |-> "init", msg_id |-> 1, node_id |-> "n1",
                          node_ids |-> <<"n1", "n2", "n3">>]),
     Message("c1", "n1", [type |-> "topology", msg_id |-> 1,
                          topology |-> [k \in {"n1", "n2", "n3"} |->
                              IF k = "n1" THEN <<"n2", "n3">> ELSE <<"n1">>]]),
     Message("c1", "n1", [type |-> "broadcast", message |-> 1, msg_id |-> 1])}

CadenceLine(msg) == Line(msg, CadenceLines)

CadenceBadLine == BadLineAt(CadenceLines)

CadenceNext ==
    \/ \E msg \in CadenceInputs : CadenceLine(msg)
    \/ CadenceBadLine
    \/ Eof
    \/ FinalRetry
    \/ Join
    \/ WriterWrite
    \/ WriterExit
    \/ WriterPanic

CadenceSpec == Init /\ [][CadenceNext]_vars

\* C9 (Periodic random-peer sync): when the periodic closure runs (every
\* Period-th line) on a node that knows at least SyncFanout peers, with the
\* writer running, main sends a sync to SyncFanout distinct peers of its
\* peer list, each carrying the whole store.
C9_SyncOnCadence ==
    [][(/\ MainStepped
        /\ last'.tick
        /\ writer = "running"
        /\ Len(node.node_ids) >= SyncFanout)
       => \E i, j \in DOMAIN Sent(last') :
            LET a == Sent(last')[i]
                b == Sent(last')[j]
            IN  /\ a.body.type = "sync" /\ b.body.type = "sync"
                /\ a.dest # b.dest
                /\ {a.dest, b.dest} \subseteq Range(node.node_ids)
                /\ Range(a.body.messages) = node.store
                /\ Range(b.body.messages) = node.store]_vars

\* How often envelope e occurs in a sequence.
Count(seq, e) == Cardinality({i \in DOMAIN seq : seq[i] = e})

\* Every envelope pending in the outbox, list after list.
AllPending(n) ==
    Concat(n.outbox, CHOOSE keys \in Perms(DOMAIN n.outbox) : TRUE)

\* C18 (Outbox replay): a replay runs on every Period-th line of the first
\* main_loop and once after end-of-file of standard input, and at no other
\* time; with the writer running it enqueues every envelope pending in any
\* outbox list as often as it is pending there (once per entry), unchanged,
\* ahead of what the line's handler sends, and leaves the node as it was:
\* after the final replay the node is unchanged, and after a line with a
\* replay the node is what the handler alone makes of the node before.
C18_ReplayAllPending ==
    [][MainStepped =>
        /\ last'.replay # <<>> =>
              \/ last'.kind = "final_retry"
              \/ pc = "loop1" /\ (msg_num + 1) % Period = 0
        /\ (/\ writer = "running"
            /\ \/ last'.kind = "final_retry"
               \/ pc = "loop1" /\ (msg_num + 1) % Period = 0
                    /\ last'.kind \in {"line", "bad_line"})
           => /\ \A e \in Range(AllPending(node)) \cup Range(last'.replay) :
                    Count(last'.replay, e) = Count(AllPending(node), e)
              /\ queue' = queue \o last'.replay \o last'.out
              /\ IF last'.kind = "line"
                 THEN node' \in {r.node : r \in next(node, last'.msg, TRUE)}
                 ELSE node' = node]_vars

\* The Period-th line has been handled and the replay before it sent the two
\* pending fan-out envelopes.
C18_Witness ==
    /\ last.kind = "line"
    /\ last.tick
    /\ Len(last.replay) = 2
    /\ OutboxEntries(node) = Range(last.replay)

(***************************************************************************)
(* A cluster of such processes under the Maelstrom network.  Every process *)
(* has handled its init and topology lines; its writer runs.  What a       *)
(* process writes for another node is in flight until that node reads it   *)
(* as a line or the network drops it.  Where a node's line counter stands  *)
(* is left open: any line may be the Period-th one.                        *)
(***************************************************************************)
ClusterNodes == {"n1", "n2", "n3"}

ClusterValues == 1..MaxClusterValue

ClusterIds == <<"n1", "n2", "n3">>

\* A static connected topology: the line n1 - n2 - n3.
ClusterTopology ==
    [k \in ClusterNodes |->
        CASE k = "n1" -> <<"n2">>
          [] k = "n2" -> <<"n1", "n3">>
          [] k = "n3" -> <<"n2">>]

Booted(n) ==
    LET init == Message("c1", n, [type |-> "init", msg_id |-> 1, node_id |-> n,
                                  node_ids |-> ClusterIds])
        topo == Message("c1", n, [type |-> "topology", msg_id |-> 2,
                                  topology |-> ClusterTopology])
        a == CHOOSE r \in handle_init_message(new, init, TRUE) : TRUE
        b == CHOOSE r \in handle_topology_message(a.node, topo, TRUE) : TRUE
    IN  b.node

ClusterInit ==
    /\ nodes = [n \in ClusterNodes |-> Booted(n)]
    /\ net = {}
    /\ lost = 0
    /\ exch = {}
    /\ asked = {}
    /\ node = new
    /\ queue = <<>>
    /\ pc = "loop1"
    /\ msg_num = 0
    /\ lines = 0
    /\ writer = "running"
    /\ last = Step("start", NoMsg, <<>>, <<>>, FALSE, TRUE)
    /\ hi = -1
    /\ hf = -1
    /\ acked = {}

\* Process n runs one main_loop iteration on the line `msg`; what it writes
\* for other nodes is in flight afterwards.
Handle(n, msg, tick) ==
    \E p \in periodic(nodes[n], tick, TRUE) :
      \E r \in next(p.node, msg, TRUE) :
        /\ nodes' = [nodes EXCEPT ![n] = r.node]
        /\ net' = (net \ {msg})
                    \cup {e \in Range(p.out \o r.out) : e.dest \in ClusterNodes}

\* A client broadcasts v at node n.
ClientBroadcast(n, v, tick) ==
    /\ Handle(n, Message("c1", n, [type |-> "broadcast", message |-> v,
                                  msg_id |-> 1]), tick)
    /\ asked' = asked \cup {v}
    /\ UNCHANGED <<lost, exch, procVars>>

\* The network hands an envelope to the process it is addressed to.
Deliver(msg, tick) ==
    /\ msg \in net
    /\ Handle(msg.dest, msg, tick)
    /\ UNCHANGED <<lost, exch, asked, procVars>>

\* The network drops an envelope.
Lose(msg) ==
    /\ msg \in net
    /\ lost < MaxLost
    /\ net' = net \ {msg}
    /\ lost' = lost + 1
    /\ UNCHANGED <<nodes, exch, asked, procVars>>

ClusterNext ==
    \/ \E n \in ClusterNodes, v \in ClusterValues, tick \in BOOLEAN :
         ClientBroadcast(n, v, tick)
    \/ \E msg \in net, tick \in BOOLEAN : Deliver(msg, tick)
    \/ \E msg \in net : Lose(msg)

\* The Period-th line of node n, here a client request that brings nothing
\* new (a broadcast of a value n already holds): only the periodic closure
\* has an effect.
Replay(n) == \E v \in nodes[n].store : ClientBroadcast(n, v, TRUE)

\* The fan-out envelopes that can travel along the edges of the topology.
FanoutEnvelopes ==
    {Message(a, b, [type |-> "broadcast", message |-> v, msg_id |-> 1])
       : a \in ClusterNodes, b \in ClusterNodes, v \in ClusterValues}

\* Finite loss (MaxLost), the network delivers every envelope it does not
\* drop, and the periodic replay of every node keeps running.
ClusterSpec ==
    /\ ClusterInit
    /\ [][ClusterNext]_vars
    /\ \A e \in FanoutEnvelopes : WF_vars(\E tick \in BOOLEAN : Deliver(e, tick))
    /\ \A n \in ClusterNodes : WF_vars(Replay(n))

\* C1 (Convergence): a value held by the store of any node is eventually in
\* the store of every node.
C1_Convergence ==
    \A v \in ClusterValues : \A n \in ClusterNodes :
        (v \in nodes[n].store) ~> (\A m \in ClusterNodes : v \in nodes[m].store)

\* Envelopes were dropped and a value still reached every store.
C1_Witness ==
    /\ DOMAIN nodes = ClusterNodes
    /\ lost = MaxLost
    /\ \E v \in ClusterValues : \A m \in ClusterNodes : v \in nodes[m].store

(***************************************************************************)
(* Sync exchanges between the processes of a cluster.  Every process has   *)
(* handled its init line (no topology yet, so a broadcast is stored and    *)
(* acknowledged without fan-out).  A node starts an exchange with          *)
(* request_sync_with_random_peers and its envelopes travel like any other: *)
(* the peer handles the sync, the initiator the sync_ok, while clients     *)
(* keep broadcasting and the network may drop envelopes.                   *)
(***************************************************************************)
Joined(n) ==
    LET init == Message("c1", n, [type |-> "init", msg_id |-> 1, node_id |-> n,
                                  node_ids |-> ClusterIds])
        a == CHOOSE r \in handle_init_message(new, init, TRUE) : TRUE
    IN  a.node

SyncInit ==
    /\ nodes = [n \in ClusterNodes |-> Joined(n)]
    /\ net = {}
    /\ lost = 0
    /\ exch = {}
    /\ asked = {}
    /\ node = new
    /\ queue = <<>>
    /\ pc = "loop1"
    /\ msg_num = 0
    /\ lines = 0
    /\ writer = "running"
    /\ last = Step("start", NoMsg, <<>>, <<>>, FALSE, TRUE)
    /\ hi = -1
    /\ hf = -1
    /\ acked = {}

\* Node n builds its sync envelopes and sends them.
RequestSync(n) ==
    /\ Cardinality(exch) < MaxSyncRounds * SyncFanout
    /\ \E r \in request_sync_with_random_peers(nodes[n]) :
         /\ nodes' = [nodes EXCEPT ![n] = r.node]
         /\ net' = net \cup Range(r.out)
         /\ exch' = exch \cup {[sync |-> r.out[i], a0 |-> nodes[n].store,
                                b0 |-> {}, stage |-> "built"]
                                 : i \in DOMAIN r.out}
    /\ UNCHANGED <<lost, asked, procVars>>

\* The exchange a sync_ok answers.
ExchangeOf(msg) ==
    {h \in exch : /\ h.stage = "handled"
                  /\ h.sync.src = msg.dest
                  /\ h.sync.dest = msg.src
                  /\ h.sync.body.msg_id = msg.body.in_reply_to}

\* The network hands a sync to the peer, or a sync_ok to the initiator.
SyncDeliver(msg) ==
    /\ msg \in net
    /\ msg.body.type \in {"sync", "sync_ok"}
    /\ Handle(msg.dest, msg, FALSE)
    /\ exch' =
         IF msg.body.type = "sync"
         THEN {IF h.sync = msg /\ h.stage = "built"
               THEN [h EXCEPT !.b0 = nodes[msg.dest].store, !.stage = "handled"]
               ELSE h : h \in exch}
         ELSE {IF h \in ExchangeOf(msg) THEN [h EXCEPT !.stage = "done"] ELSE h
                 : h \in exch}
    /\ UNCHANGED <<lost, asked, procVars>>

SyncNext ==
    \/ \E n \in ClusterNodes : RequestSync(n)
    \/ \E msg \in net : SyncDeliver(msg)
    \/ \E n \in ClusterNodes, v \in Values : ClientBroadcast(n, v, FALSE)
    \/ \E msg \in net : Lose(msg)

SyncSpec == SyncInit /\ [][SyncNext]_vars

\* C11 (L4 sync symmetry): once A has sent B a sync carrying A's store, B has
\* handled it and replied, and A has handled the sync_ok, the store of A and
\* the store of B both contain every value A's store held when the sync was
\* built and every value B's store held when B handled it.
C11_SyncSymmetry ==
    \A h \in exch :
        h.stage = "done" =>
            /\ (h.a0 \cup h.b0) \subseteq nodes[h.sync.src].store
            /\ (h.a0 \cup h.b0) \subseteq nodes[h.sync.dest].store

\* An exchange between two nodes has completed in which each side held a
\* value the other lacked.
C11_Witness ==
    \E h \in exch :
        /\ h.stage = "done"
        /\ h.sync.src # h.sync.dest
        /\ h.a0 \ h.b0 # {}
        /\ h.b0 \ h.a0 # {}

(***************************************************************************)
(* The whole cluster: processes that have handled init and topology (the   *)
(* line n1 - n2 - n3), clients broadcasting, gossip with its               *)
(* acknowledgements and periodic replays, sync exchanges, and a network    *)
(* that may drop envelopes.                                                *)
(***************************************************************************)
\* The network hands a broadcast or a broadcast_ok to its addressee.
GossipDeliver(msg, tick) ==
    /\ msg.body.type \notin {"sync", "sync_ok"}
    /\ Deliver(msg, tick)

WholeNext ==
    \/ \E n \in ClusterNodes, v \in ClusterValues, tick \in BOOLEAN :
         ClientBroadcast(n, v, tick)
    \/ \E msg \in net, tick \in BOOLEAN : GossipDeliver(msg, tick)
    \/ \E n \in ClusterNodes : RequestSync(n)
    \/ \E msg \in net : SyncDeliver(msg)
    \/ \E msg \in net : Lose(msg)

WholeSpec == ClusterInit /\ [][WholeNext]_vars

\* C22 (Validity): every value in the store of any node is the message of a
\* broadcast some client sent to some node.
C22_Validity ==
    \A n \in DOMAIN nodes : nodes[n].store \subseteq asked

\* Every node holds every value a client broadcast, and a completed sync
\* exchange carried a value the initiator lacked.
C22_Witness ==
    /\ asked # {}
    /\ \A n \in ClusterNodes : nodes[n].store = asked
    /\ \E h \in exch : h.stage = "done" /\ h.b0 \ h.a0 # {}
====
